---- MODULE Spec2Model ----
(***************************************************************************)
(* otintegration: opentracing helpers and middlewares for gin and          *)
(* go-json-rest.  One request travels through a chain of middlewares to    *)
(* the user's handler; the middlewares and the helper functions start,     *)
(* store, look up, propagate and finish spans.                             *)
(*                                                                         *)
(* Spec     one request through a chain of middlewares and its handler.    *)
(* SpecApi  the helper functions called from a handler, on every content   *)
(*          of the request store, the headers and the binary carrier.      *)
(***************************************************************************)
EXTENDS Integers, Sequences, FiniteSets, TLC

VARIABLES
    framework,      \* "gin" or "gorest": which request object carries the store
    handlers,       \* the chain of the request: middlewares, then the handler
    abortOnErrors,  \* the option of SpanFromHeaders*, SpanFromContext, InjectToHeaders
    index,          \* gin's c.index, 1-based: the handler being run
    aborted,        \* gin's c.IsAborted()
    stack,          \* middlewares suspended in c.Next() / next(w, r), innermost last
    pc,             \* "loop", "inHandler", "unwinding", "done", "panicked"
    panicCause,     \* why the request panicked: "none", "handler", "typeAssert", "nilTracer"
    store,          \* the slot under spanContextKey of c.Keys / r.Env
    everPut,        \* a span was put under spanContextKey at some time
    spans,          \* the tracer's spans, in the order they were started
    headers,        \* the trace header of the request's header carrier
    buf,            \* the caller's binary carrier (TraceInfo)
    binInjects,     \* binary injections made into buf so far
    status,         \* gin: c.Writer.Status(); gorest: r.Env["STATUS_CODE"] (0: not set)
    handlerRuns,    \* how many times the user's handler was entered
    ops,            \* helper calls made by the handler so far
    last            \* the last helper call: its inputs and what it returned

vars == <<framework, handlers, abortOnErrors, index, aborted, stack, pc, panicCause,
          store, everPut, spans, headers, buf, binInjects, status, handlerRuns, ops, last>>

(* Bounds *)
MaxChain == 2   \* middlewares in front of the handler
MaxOps == 2     \* helper calls one handler makes
MaxRequests == 2   \* requests handled at the same time

-----------------------------------------------------------------------------
(* Values *)

\* a nil opentracing.SpanContext
NilCtx == [traceID |-> 0, spanID |-> 0]

\* the context a remote caller propagated
RemoteCtx == [traceID |-> 8, spanID |-> 9]

\* a nil opentracing.Span
NilSpan == [impl |-> "nil", id |-> 0]

\* the span returned by NewEmptySpan
EmptySpan == [impl |-> "EmptySpan", id |-> 0]

\* the span the tracer started as its n-th
TracerSpan(n) == [impl |-> "tracer", id |-> n]

ErrSpanNotFound == "ErrSpanNotFound"

NoErr == "nil"

\* the request store without a value under spanContextKey
Absent == [kind |-> "absent", span |-> NilSpan]

\* spanContextKey set to nil
StoredNil == [kind |-> "nil", span |-> NilSpan]

\* spanContextKey set to a value that is not an opentracing.Span
StoredOther == [kind |-> "other", span |-> NilSpan]

\* spanContextKey set to a span
Stored(s) == [kind |-> "span", span |-> s]

\* no trace header in the carrier
NoHeader == [t |-> 0, sep |-> "", s |-> 0]

\* a trace header that does not parse
GarbageHeader == [t |-> 0, sep |-> "?", s |-> 0]

\* a binary carrier whose bytes do not decode
GarbageBuf == <<0, 0>>

\* a binary carrier (a TraceInfo of the caller) whose Write and Read return an error
BrokenCarrier == <<-1>>

StatusInternalServerError == 500

\* what a handler leaves as the response status: untouched, or its own
StatusCodes(current) == {current, 404}

\* the tags StartSpanWithParent sets at start
ServerTags == {"span.kind", "http.method", "http.url", "current-goroutines"}

\* the tags StartSpanWithBinParent sets at start
BinTags == {"span.kind", "current-goroutines"}

-----------------------------------------------------------------------------
(* The tracer (opentracing.Tracer, jaeger-client-go) *)

\* opentracing.ChildOf(sc): a reference, dropped by Apply when sc is nil
ChildOf(ctx) == IF ctx = NilCtx THEN <<>> ELSE <<ctx>>

\* tracer.StartSpan(operationName, opts...): the spans with the new one appended
TracerStartSpan(sp, refs, tags, by) ==
    Append(sp, [ctx      |-> [traceID |-> IF refs = <<>> THEN Len(sp) + 1 ELSE refs[1].traceID,
                              spanID  |-> Len(sp) + 1],
                refs     |-> refs,
                tags     |-> tags,
                by       |-> by,
                held     |-> TRUE,
                finished |-> 0,
                statusTag |-> 0])

\* span.Finish()
SpanFinish(sp, s) ==
    IF s.impl = "tracer"
    THEN [sp EXCEPT ![s.id].finished = @ + 1]
    ELSE sp

\* the status tag set on a span that was finished first
SpanSetStatusAfterFinish(sp, s, code) == SpanFinish(sp, s)

\* span.SetTag(ext.HTTPStatusCode, code): a tag set after Finish comes too late for
\* the span the tracer has reported
SpanSetStatus(sp, s, code) ==
    IF s.impl = "tracer" /\ sp[s.id].finished = 0
    THEN [sp EXCEPT ![s.id].statusTag = code, ![s.id].tags = @ \cup {"http.status_code"}]
    ELSE sp

\* span.Context(): nil for the EmptySpan
SpanContext(sp, s) == IF s.impl = "tracer" THEN sp[s.id].ctx ELSE NilCtx

\* span.Tracer(): nil for the EmptySpan
SpanTracer(s) == IF s.impl = "tracer" THEN "tracer" ELSE "nil"

\* the HTTPHeaders propagator escapes the value it writes (url.QueryEscape)
EncodeHTTPHeaders(ctx) == [t |-> ctx.traceID, sep |-> "%3A", s |-> ctx.spanID]

\* the TextMap propagator writes the value as it is
EncodeTextMap(ctx) == [t |-> ctx.traceID, sep |-> ":", s |-> ctx.spanID]

\* url.QueryUnescape of the separator
Unescape(sep) == IF sep = "%3A" THEN ":" ELSE sep

\* tracer.Extract(format, HTTPHeadersCarrier(header))
TracerExtract(format, h) ==
    LET sep == IF format = "HTTPHeaders" THEN Unescape(h.sep) ELSE h.sep IN
    IF h = NoHeader
    THEN [ctx |-> NilCtx, err |-> "ErrSpanContextNotFound"]
    ELSE IF sep # ":" \/ h.t = 0 \/ h.s = 0
         THEN [ctx |-> NilCtx, err |-> "ErrSpanContextCorrupted"]
         ELSE [ctx |-> [traceID |-> h.t, spanID |-> h.s], err |-> NoErr]

\* tracer.Inject(ctx, HTTPHeaders, HTTPHeadersCarrier(header)): http.Header.Set
TracerInject(ctx, h) ==
    IF ctx = NilCtx
    THEN [headers |-> h, err |-> "ErrInvalidSpanContext"]
    ELSE [headers |-> EncodeHTTPHeaders(ctx), err |-> NoErr]

\* the bytes of a context in the Binary format
EncodeBinary(ctx) == <<ctx.traceID, ctx.spanID>>

\* tracer.Inject(ctx, Binary, writer): the writer's Write appends
TracerInjectBinary(ctx, b) ==
    IF ctx = NilCtx
    THEN [buf |-> b, err |-> "ErrInvalidSpanContext"]
    ELSE IF b = BrokenCarrier
         THEN [buf |-> b, err |-> "ErrWrite"]
         ELSE [buf |-> b \o EncodeBinary(ctx), err |-> NoErr]

\* tracer.Extract(Binary, reader): reads, and so consumes, the reader's bytes;
\* a short read and bytes that are no context are both reported as an error
TracerExtractBinary(b) ==
    IF b = BrokenCarrier
    THEN [ctx |-> NilCtx, err |-> "ErrSpanContextCorrupted", buf |-> b]
    ELSE IF Len(b) < 2
    THEN [ctx |-> NilCtx, err |-> "ErrSpanContextCorrupted", buf |-> <<>>]
    ELSE IF b[1] = 0 \/ b[2] = 0
         THEN [ctx |-> NilCtx, err |-> "ErrSpanContextCorrupted", buf |-> SubSeq(b, 3, Len(b))]
         ELSE [ctx |-> [traceID |-> b[1], spanID |-> b[2]], err |-> NoErr,
               buf |-> SubSeq(b, 3, Len(b))]

-----------------------------------------------------------------------------
(* span.go: starting spans *)

\* StartSpanWithParent that leaves the parent out of the options
StartSpanWithParentNoRef(sp, parent, by) == TracerStartSpan(sp, <<>>, ServerTags, by)

\* StartSpanWithParent(tracer, parent, operationName, method, path)
StartSpanWithParent(sp, parent, by) ==
    TracerStartSpan(sp, IF parent # NilCtx THEN ChildOf(parent) ELSE <<>>, ServerTags, by)

\* StartSpan(tracer, operationName, method, path)
StartSpan(sp, by) == StartSpanWithParent(sp, NilCtx, by)

\* StartSpanWithBinParent(tracer, parent, operationName)
StartSpanWithBinParent(sp, parent, by) ==
    TracerStartSpan(sp, IF parent # NilCtx THEN ChildOf(parent) ELSE <<>>, BinTags, by)

\* a span that was started and whose handle was dropped
Discarded(sp) == [sp EXCEPT ![Len(sp)].held = FALSE]

\* StartSpanWithHeader returning (span, error): no span when the extraction fails
StartSpanWithHeader(sp, hasHeader, h, by) ==
    IF hasHeader
    THEN LET e == TracerExtract("HTTPHeaders", h) IN
         IF e.err # NoErr
         THEN [spans |-> sp, span |-> NilSpan, err |-> e.err]
         ELSE [spans |-> StartSpanWithParent(sp, e.ctx, by),
               span |-> TracerSpan(Len(sp) + 1), err |-> NoErr]
    ELSE [spans |-> StartSpanWithParent(sp, NilCtx, by),
          span |-> TracerSpan(Len(sp) + 1), err |-> NoErr]

\* StartSpanWithHeader returning the span alone: when the extraction fails it
\* starts a span it drops, then starts the span it returns
StartSpanWithHeaderSpanOnly(sp, hasHeader, h, by) ==
    IF hasHeader
    THEN LET e == TracerExtract("HTTPHeaders", h) IN
         IF e.err # NoErr
         THEN LET sp1 == Discarded(StartSpanWithParent(sp, NilCtx, by)) IN
              [spans |-> StartSpanWithParent(sp1, e.ctx, by),
               span |-> TracerSpan(Len(sp1) + 1), err |-> NoErr]
         ELSE [spans |-> StartSpanWithParent(sp, e.ctx, by),
               span |-> TracerSpan(Len(sp) + 1), err |-> NoErr]
    ELSE [spans |-> StartSpanWithParent(sp, NilCtx, by),
          span |-> TracerSpan(Len(sp) + 1), err |-> NoErr]

-----------------------------------------------------------------------------
(* gin_span.go, gorest_spn.go, span.go: the request store and the carriers *)

\* spanI.(opentracing.Span), the checked form: ok is false for nil and for other types
TypeAssertSpan(st) ==
    IF st.kind = "span" THEN [span |-> st.span, ok |-> TRUE]
    ELSE [span |-> NilSpan, ok |-> FALSE]

\* GetGinSpan handing out the EmptySpan when the store holds no span
GetGinSpanSilent(st) ==
    LET a == TypeAssertSpan(st) IN
    IF a.span = NilSpan \/ ~a.ok
    THEN [span |-> EmptySpan, err |-> NoErr]
    ELSE [span |-> a.span, err |-> NoErr]

\* GetGinSpan(ctx)
GetGinSpan(st) ==
    LET a == TypeAssertSpan(st) IN
    IF a.span = NilSpan \/ ~a.ok
    THEN [span |-> NilSpan, err |-> ErrSpanNotFound]
    ELSE [span |-> a.span, err |-> NoErr]

\* GetGorestSpan(r)
GetGorestSpan(st) ==
    LET a == TypeAssertSpan(st) IN
    IF a.span = NilSpan \/ ~a.ok
    THEN [span |-> NilSpan, err |-> ErrSpanNotFound]
    ELSE [span |-> a.span, err |-> NoErr]

\* GetSubSpan(spanRoot, operationName): spanRoot.Tracer().StartSpan panics on a nil tracer
GetSubSpan(sp, spanRoot, by) ==
    IF SpanTracer(spanRoot) = "nil"
    THEN [spans |-> sp, span |-> NilSpan, panic |-> TRUE]
    ELSE [spans |-> TracerStartSpan(sp, ChildOf(SpanContext(sp, spanRoot)), {}, by),
          span |-> TracerSpan(Len(sp) + 1), panic |-> FALSE]

\* GetGinSubSpan that makes the sub-span the active span of the request
GetGinSubSpanStoring(st, sp) ==
    LET g == GetGinSpan(st) IN
    IF g.err # NoErr
    THEN [store |-> st, spans |-> sp, span |-> NilSpan, err |-> g.err, panic |-> FALSE]
    ELSE LET sub == GetSubSpan(sp, g.span, 0) IN
         [store |-> IF sub.panic THEN st ELSE Stored(sub.span), spans |-> sub.spans,
          span |-> sub.span, err |-> NoErr, panic |-> sub.panic]

\* GetGinSubSpan(ctx, operationName)
GetGinSubSpan(st, sp) ==
    LET g == GetGinSpan(st) IN
    IF g.err # NoErr
    THEN [store |-> st, spans |-> sp, span |-> NilSpan, err |-> g.err, panic |-> FALSE]
    ELSE LET sub == GetSubSpan(sp, g.span, 0) IN
         [store |-> st, spans |-> sub.spans, span |-> sub.span, err |-> NoErr,
          panic |-> sub.panic]

\* GetGorestSubSpan(r, operationName)
GetGorestSubSpan(st, sp) ==
    LET g == GetGorestSpan(st) IN
    IF g.err # NoErr
    THEN [store |-> st, spans |-> sp, span |-> NilSpan, err |-> g.err, panic |-> FALSE]
    ELSE LET sub == GetSubSpan(sp, g.span, 0) IN
         [store |-> st, spans |-> sub.spans, span |-> sub.span, err |-> NoErr,
          panic |-> sub.panic]

\* InjectGinToBinary(c, inter): span.Tracer().Inject into inter, as it is
InjectGinToBinary(st, sp, b) ==
    LET g == GetGinSpan(st) IN
    IF g.err # NoErr
    THEN [buf |-> b, err |-> g.err, ctx |-> NilCtx, panic |-> FALSE]
    ELSE IF SpanTracer(g.span) = "nil"
         THEN [buf |-> b, err |-> NoErr, ctx |-> NilCtx, panic |-> TRUE]
         ELSE LET i == TracerInjectBinary(SpanContext(sp, g.span), b) IN
              [buf |-> i.buf, err |-> i.err, ctx |-> SpanContext(sp, g.span),
               panic |-> FALSE]

\* InjectGorestToBinary(r, inter)
InjectGorestToBinary(st, sp, b) ==
    LET g == GetGorestSpan(st) IN
    IF g.err # NoErr
    THEN [buf |-> b, err |-> g.err, ctx |-> NilCtx, panic |-> FALSE]
    ELSE IF SpanTracer(g.span) = "nil"
         THEN [buf |-> b, err |-> NoErr, ctx |-> NilCtx, panic |-> TRUE]
         ELSE LET i == TracerInjectBinary(SpanContext(sp, g.span), b) IN
              [buf |-> i.buf, err |-> i.err, ctx |-> SpanContext(sp, g.span),
               panic |-> FALSE]

\* inter.Reset(): the carrier forgets its bytes
Reset(b) == IF b = BrokenCarrier THEN b ELSE <<>>

\* InjectToBinary(tracer, ctx, inter) with inter.Reset() before the injection; the
\* function has no result: what tracer.Inject returns is dropped
InjectToBinary(ctx, b) ==
    [buf |-> TracerInjectBinary(ctx, Reset(b)).buf, err |-> NoErr, ctx |-> ctx,
     panic |-> FALSE]

\* InjectToBinary(tracer, ctx, inter) without the Reset
InjectToBinaryNoReset(ctx, b) ==
    [buf |-> TracerInjectBinary(ctx, b).buf, err |-> NoErr, ctx |-> ctx, panic |-> FALSE]

\* InjectToBinary(r, inter) returning an error: into inter.GetBuff(), as it is
InjectToBinaryRequest(st, sp, b) ==
    LET g == GetGorestSpan(st) IN
    IF g.err # NoErr
    THEN [buf |-> b, err |-> g.err, ctx |-> NilCtx, panic |-> FALSE]
    ELSE IF SpanTracer(g.span) = "nil"
         THEN [buf |-> b, err |-> NoErr, ctx |-> NilCtx, panic |-> TRUE]
         ELSE LET i == TracerInjectBinary(SpanContext(sp, g.span), b) IN
              [buf |-> i.buf, err |-> i.err, ctx |-> SpanContext(sp, g.span),
               panic |-> FALSE]

\* InjectToBinary(r, inter) without a result: the error of GetGorestSpan is dropped
\* and span.Tracer() is called on what it returned, nil when the store holds no
\* span; the error of tracer.Inject is dropped as well
InjectToBinaryRequestUnchecked(st, sp, b) ==
    LET g == GetGorestSpan(st) IN
    IF g.span = NilSpan
    THEN [buf |-> b, err |-> NoErr, ctx |-> NilCtx, panic |-> TRUE, cause |-> "nilSpan"]
    ELSE IF SpanTracer(g.span) = "nil"
         THEN [buf |-> b, err |-> NoErr, ctx |-> NilCtx, panic |-> TRUE,
               cause |-> "nilTracer"]
         ELSE [buf |-> TracerInjectBinary(SpanContext(sp, g.span), b).buf, err |-> NoErr,
               ctx |-> SpanContext(sp, g.span), panic |-> FALSE, cause |-> "none"]

\* bytes.Buffer.Read(p) with len(p) = n: at most n bytes leave the buffer; io.EOF
\* only when the buffer is empty and n > 0
BufferRead(b, n) ==
    LET k == IF n < Len(b) THEN n ELSE Len(b) IN
    [bytes |-> SubSeq(b, 1, k), buf |-> SubSeq(b, k + 1, Len(b)),
     err |-> IF Len(b) = 0 /\ n > 0 THEN "EOF" ELSE NoErr]

\* ExtractFromBinary(tracer, inter) over inter.GetBuff(): it reads into bt, a nil
\* slice, writes bt back, and extracts from a buffer over bt
ExtractFromBinaryGetBuff(b) ==
    LET rd == BufferRead(b, 0) IN
    IF rd.err # NoErr
    THEN [ctx |-> NilCtx, err |-> rd.err, buf |-> rd.buf]
    ELSE LET e == TracerExtractBinary(rd.bytes) IN
         [ctx |-> e.ctx, err |-> e.err, buf |-> rd.buf \o rd.bytes]

\* ExtractFromBinary(tracer, inter): a nil context with the error
ExtractFromBinary(b) ==
    LET e == TracerExtractBinary(b) IN
    IF e.err # NoErr
    THEN [ctx |-> NilCtx, err |-> e.err, buf |-> e.buf]
    ELSE [ctx |-> e.ctx, err |-> NoErr, buf |-> e.buf]

\* StartSpanFromBinary giving up on a failed extraction
StartSpanFromBinaryNoSpanOnError(sp, b, by) ==
    LET e == ExtractFromBinary(b) IN
    IF e.err # NoErr
    THEN [spans |-> sp, span |-> NilSpan, err |-> e.err, buf |-> e.buf]
    ELSE [spans |-> StartSpanWithBinParent(sp, e.ctx, by), span |-> TracerSpan(Len(sp) + 1),
          err |-> e.err, buf |-> e.buf]

\* StartSpanFromBinary(tracer, inter, operName)
StartSpanFromBinary(sp, b, by) ==
    LET e == ExtractFromBinary(b) IN
    [spans |-> StartSpanWithBinParent(sp, e.ctx, by), span |-> TracerSpan(Len(sp) + 1),
     err |-> e.err, buf |-> e.buf]

-----------------------------------------------------------------------------
(* span.go: EmptySpan *)

\* the methods of opentracing.Span that return a Span
SpanSetters == {"SetOperationName", "SetTag", "SetBaggageItem"}

\* the methods of opentracing.Span, all of which EmptySpan implements
EmptySpanMethods == SpanSetters \cup {"Finish", "FinishWithOptions", "Context", "LogFields",
                                      "LogKV", "BaggageItem", "Tracer", "LogEvent",
                                      "LogEventWithPayload", "Log"}

\* the baggage keys a caller uses
BaggageKeys == {"k1", "k2"}

\* an EmptySpan whose BaggageItem answers with the key it is asked for
EmptySpanCallEcho(sp, m, key) ==
    [spans |-> IF m \in {"Finish", "FinishWithOptions"} THEN SpanFinish(sp, EmptySpan) ELSE sp,
     span |-> NilSpan, str |-> IF m = "BaggageItem" THEN key ELSE "",
     ctx |-> SpanContext(sp, EmptySpan), tracer |-> SpanTracer(EmptySpan)]

\* the method m of EmptySpan{}: the struct has no field, the bodies are empty or
\* return nil / ""; span is the Span a setter returns, which is nil
EmptySpanCall(sp, m, key) ==
    [spans |-> IF m \in {"Finish", "FinishWithOptions"} THEN SpanFinish(sp, EmptySpan) ELSE sp,
     span |-> NilSpan, str |-> "",
     ctx |-> SpanContext(sp, EmptySpan), tracer |-> SpanTracer(EmptySpan)]

-----------------------------------------------------------------------------
(* gin.Context: Abort *)

\* AbortWithError that writes the status and lets the chain go on
AbortWithErrorStatusOnly(code) == [aborted |-> FALSE, status |-> code]

\* ctx.AbortWithError(code, err): the status, and no handler after this one
AbortWithError(code) == [aborted |-> TRUE, status |-> code]

\* AbortWithStatusJSON that writes the status and lets the chain go on
AbortWithStatusJSONStatusOnly(code) == [aborted |-> FALSE, status |-> code]

\* ctx.AbortWithStatusJSON(code, obj)
AbortWithStatusJSON(code) == [aborted |-> TRUE, status |-> code]

\* RunDefers with span.Finish() called after Next() instead of deferred
RunDefersNotOnPanic(sp, f, panicking) ==
    IF f.span # NilSpan /\ ~panicking THEN SpanFinish(sp, f.span) ELSE sp

\* the deferred span.Finish() of a middleware, run on return and on panic
RunDefers(sp, f, panicking) == IF f.span # NilSpan THEN SpanFinish(sp, f.span) ELSE sp

-----------------------------------------------------------------------------
(* The request *)

GinMiddlewares == {"OpenTracerGinMiddleware", "SpanFromHeaders", "SpanFromHeadersHTTPFmt",
                   "SpanFromContext", "InjectToHeaders", "UserMiddleware"}

GorestMiddlewares == {"OpenTracerGorestMiddleware", "UserMiddleware"}

\* the chains of at most MaxChain middlewares of one framework, ending in the handler
Chains(mws) == {m \o <<"Handler">> : m \in UNION {[1..n -> mws] : n \in 0..MaxChain}}

NoCall == [op |-> "none", span |-> NilSpan, err |-> NoErr, pre |-> Absent, in |-> <<>>,
           ctx |-> NilCtx, panic |-> FALSE, hasHeader |-> FALSE,
           recv |-> NilSpan, key |-> "", str |-> "", tracer |-> "nil",
           prevOp |-> "none", prevKey |-> "", injected |-> NilCtx]

\* what user code can put under spanContextKey besides a span of the tracer
UserValues == {StoredNil, StoredOther, Stored(EmptySpan)}

\* what user code running before the handler may have left under spanContextKey
InitialStores == {Absent} \cup UserValues

InitialHeaders == {NoHeader, GarbageHeader, EncodeTextMap(RemoteCtx),
                   EncodeHTTPHeaders(RemoteCtx)}

Init ==
    /\ framework \in {"gin", "gorest"}
    /\ handlers \in Chains(IF framework = "gin" THEN GinMiddlewares ELSE GorestMiddlewares)
    /\ abortOnErrors \in BOOLEAN
    /\ index = 1
    /\ aborted = FALSE
    /\ stack = <<>>
    /\ pc = "loop"
    /\ panicCause = "none"
    /\ store = Absent
    /\ everPut = FALSE
    /\ spans = <<>>
    /\ headers \in InitialHeaders
    /\ buf = <<>>
    /\ binInjects = 0
    /\ status = IF framework = "gin" THEN 200 ELSE 0
    /\ handlerRuns = 0
    /\ ops = 0
    /\ last = NoCall

\* the engine's loop is about to run handlers[index]
CanDispatch(h) == pc = "loop" /\ ~aborted /\ index <= Len(handlers) /\ handlers[index] = h

\* the innermost c.Next() has run out of handlers and returns to the middleware h
Returns(h) ==
    /\ pc = "loop" /\ (aborted \/ index > Len(handlers))
    /\ stack # <<>> /\ handlers[stack[Len(stack)].h] = h

Top == stack[Len(stack)]

Pop == SubSeq(stack, 1, Len(stack) - 1)

\* a Next() that skips the handler after the middleware
CallNextSkipping(s) ==
    /\ stack' = Append(stack, [h |-> index, span |-> s])
    /\ index' = index + 2

\* the middleware at index starts the handlers after it and waits for them
CallNext(s) ==
    /\ stack' = Append(stack, [h |-> index, span |-> s])
    /\ index' = index + 1

\* an OpenTracer middleware that prefers the context of the headers to the stored span
OpenTracerStartSpanHeadersFirst(st, sp, h, by) ==
    LET r == StartSpanWithHeader(sp, TRUE, h, by) IN
    IF r.err = NoErr \/ st.kind = "absent"
    THEN [spans |-> r.spans, span |-> r.span, err |-> r.err, panic |-> FALSE]
    ELSE IF st.kind # "span"
         THEN [spans |-> sp, span |-> NilSpan, err |-> NoErr, panic |-> TRUE]
         ELSE [spans |-> StartSpanWithParent(sp, SpanContext(sp, st.span), by),
               span |-> TracerSpan(Len(sp) + 1), err |-> NoErr, panic |-> FALSE]

\* the span of OpenTracerGinMiddleware / OpenTracerGorestMiddleware: child of the
\* stored span when the key exists (an unchecked type assertion), else from the headers
OpenTracerStartSpan(st, sp, h, by) ==
    IF st.kind # "absent"
    THEN IF st.kind # "span"
         THEN [spans |-> sp, span |-> NilSpan, err |-> NoErr, panic |-> TRUE]
         ELSE [spans |-> StartSpanWithParent(sp, SpanContext(sp, st.span), by),
               span |-> TracerSpan(Len(sp) + 1), err |-> NoErr, panic |-> FALSE]
    ELSE LET r == StartSpanWithHeader(sp, TRUE, h, by) IN
         [spans |-> r.spans, span |-> r.span, err |-> r.err, panic |-> FALSE]

\* OpenTracerGinMiddleware up to c.Next()
OpenTracerGinMiddlewareEnter ==
    /\ CanDispatch("OpenTracerGinMiddleware")
    /\ LET r == OpenTracerStartSpan(store, spans, headers, index) IN
       IF r.panic
       THEN /\ pc' = "unwinding" /\ panicCause' = "typeAssert"
            /\ UNCHANGED <<index, stack, store, everPut, spans>>
       ELSE /\ spans' = r.spans
            /\ IF r.err # NoErr
               THEN UNCHANGED <<store, everPut>>
               ELSE store' = Stored(r.span) /\ everPut' = TRUE
            /\ CallNext(r.span)
            /\ UNCHANGED <<pc, panicCause>>
    /\ UNCHANGED <<framework, handlers, abortOnErrors, aborted, headers, buf, binInjects,
                   status, handlerRuns, ops, last>>

\* OpenTracerGinMiddleware after c.Next(): the status tag, then the deferred Finish
OpenTracerGinMiddlewareExit ==
    /\ Returns("OpenTracerGinMiddleware")
    /\ spans' = RunDefers(IF Top.span # NilSpan
                          THEN SpanSetStatus(spans, Top.span, status) ELSE spans,
                          Top, FALSE)
    /\ stack' = Pop
    /\ index' = index + 1
    /\ UNCHANGED <<framework, handlers, abortOnErrors, aborted, pc, panicCause, store,
                   everPut, headers, buf, binInjects, status, handlerRuns, ops, last>>

\* OpenTracerGorestMiddleware up to next(w, r)
OpenTracerGorestMiddlewareEnter ==
    /\ CanDispatch("OpenTracerGorestMiddleware")
    /\ LET r == OpenTracerStartSpan(store, spans, headers, index) IN
       IF r.panic
       THEN /\ pc' = "unwinding" /\ panicCause' = "typeAssert"
            /\ UNCHANGED <<index, stack, store, everPut, spans>>
       ELSE /\ spans' = r.spans
            /\ IF r.err # NoErr
               THEN UNCHANGED <<store, everPut>>
               ELSE store' = Stored(r.span) /\ everPut' = TRUE
            /\ CallNext(r.span)
            /\ UNCHANGED <<pc, panicCause>>
    /\ UNCHANGED <<framework, handlers, abortOnErrors, aborted, headers, buf, binInjects,
                   status, handlerRuns, ops, last>>

\* OpenTracerGorestMiddleware after next(w, r): the status tag when r.Env holds an
\* int under "STATUS_CODE", then the deferred Finish
OpenTracerGorestMiddlewareExit ==
    /\ Returns("OpenTracerGorestMiddleware")
    /\ spans' = RunDefers(IF Top.span # NilSpan /\ status # 0
                          THEN SpanSetStatus(spans, Top.span, status) ELSE spans,
                          Top, FALSE)
    /\ stack' = Pop
    /\ index' = index + 1
    /\ UNCHANGED <<framework, handlers, abortOnErrors, aborted, pc, panicCause, store,
                   everPut, headers, buf, binInjects, status, handlerRuns, ops, last>>

\* the body shared by SpanFromHeaders and SpanFromHeadersHTTPFmt, up to ctx.Next()
SpanFromCarrier(format) ==
    LET e == TracerExtract(format, headers) IN
    IF e.err # NoErr
    THEN /\ IF abortOnErrors
            THEN LET a == AbortWithError(StatusInternalServerError) IN
                 aborted' = a.aborted /\ status' = a.status
            ELSE UNCHANGED <<aborted, status>>
         /\ index' = index + 1
         /\ UNCHANGED <<stack, store, everPut, spans>>
    ELSE /\ spans' = TracerStartSpan(spans, ChildOf(e.ctx), {}, index)
         /\ store' = Stored(TracerSpan(Len(spans) + 1))
         /\ everPut' = TRUE
         /\ CallNext(TracerSpan(Len(spans) + 1))
         /\ UNCHANGED <<aborted, status>>

\* SpanFromHeaders up to ctx.Next(): the TextMap format
SpanFromHeadersEnter ==
    /\ CanDispatch("SpanFromHeaders")
    /\ SpanFromCarrier("TextMap")
    /\ UNCHANGED <<framework, handlers, abortOnErrors, pc, panicCause, headers, buf,
                   binInjects, handlerRuns, ops, last>>

\* SpanFromHeadersHTTPFmt up to ctx.Next(): the HTTPHeaders format
SpanFromHeadersHTTPFmtEnter ==
    /\ CanDispatch("SpanFromHeadersHTTPFmt")
    /\ SpanFromCarrier("HTTPHeaders")
    /\ UNCHANGED <<framework, handlers, abortOnErrors, pc, panicCause, headers, buf,
                   binInjects, handlerRuns, ops, last>>

\* SpanFromContext up to ctx.Next()
SpanFromContextEnter ==
    /\ CanDispatch("SpanFromContext")
    /\ LET a == TypeAssertSpan(store) IN
       IF a.span # NilSpan /\ a.ok
       THEN /\ spans' = TracerStartSpan(spans, ChildOf(SpanContext(spans, a.span)), {}, index)
            /\ store' = Stored(TracerSpan(Len(spans) + 1))
            /\ everPut' = TRUE
            /\ CallNext(TracerSpan(Len(spans) + 1))
            /\ UNCHANGED <<aborted, status>>
       ELSE /\ IF abortOnErrors
               THEN LET ab == AbortWithError(StatusInternalServerError) IN
                    aborted' = ab.aborted /\ status' = ab.status
               ELSE UNCHANGED <<aborted, status>>
            /\ index' = index + 1
            /\ UNCHANGED <<stack, store, everPut, spans>>
    /\ UNCHANGED <<framework, handlers, abortOnErrors, pc, panicCause, headers, buf,
                   binInjects, handlerRuns, ops, last>>

\* SpanFromHeaders, SpanFromHeadersHTTPFmt, SpanFromContext after ctx.Next():
\* the deferred Finish
SpanFromExit ==
    /\ \/ Returns("SpanFromHeaders")
       \/ Returns("SpanFromHeadersHTTPFmt")
       \/ Returns("SpanFromContext")
    /\ spans' = RunDefers(spans, Top, FALSE)
    /\ stack' = Pop
    /\ index' = index + 1
    /\ UNCHANGED <<framework, handlers, abortOnErrors, aborted, pc, panicCause, store,
                   everPut, headers, buf, binInjects, status, handlerRuns, ops, last>>

\* InjectToHeaders: it never calls ctx.Next()
InjectToHeadersRun ==
    /\ CanDispatch("InjectToHeaders")
    /\ LET a == TypeAssertSpan(store) IN
       IF a.span # NilSpan /\ a.ok
       THEN /\ headers' = TracerInject(SpanContext(spans, a.span), headers).headers
            /\ UNCHANGED <<aborted, status>>
       ELSE /\ IF abortOnErrors
               THEN LET ab == AbortWithStatusJSON(StatusInternalServerError) IN
                    aborted' = ab.aborted /\ status' = ab.status
               ELSE UNCHANGED <<aborted, status>>
            /\ UNCHANGED headers
    /\ index' = index + 1
    /\ UNCHANGED <<framework, handlers, abortOnErrors, stack, pc, panicCause, store, everPut,
                   spans, buf, binInjects, handlerRuns, ops, last>>

\* a middleware of the user sets spanContextKey itself, then runs the rest
UserMiddlewareEnter ==
    /\ CanDispatch("UserMiddleware")
    /\ \E v \in UserValues : store' = v /\ everPut' = (everPut \/ v.kind = "span")
    /\ CallNext(NilSpan)
    /\ UNCHANGED <<framework, handlers, abortOnErrors, aborted, pc, panicCause, spans,
                   headers, buf, binInjects, status, handlerRuns, ops, last>>

\* the user's middleware returns
UserMiddlewareExit ==
    /\ Returns("UserMiddleware")
    /\ stack' = Pop
    /\ index' = index + 1
    /\ UNCHANGED <<framework, handlers, abortOnErrors, aborted, pc, panicCause, store,
                   everPut, spans, headers, buf, binInjects, status, handlerRuns, ops, last>>

\* the engine calls the user's handler
HandlerEnter ==
    /\ CanDispatch("Handler")
    /\ pc' = "inHandler"
    /\ handlerRuns' = handlerRuns + 1
    /\ ops' = 0
    /\ UNCHANGED <<framework, handlers, abortOnErrors, index, aborted, stack, panicCause,
                   store, everPut, spans, headers, buf, binInjects, status, last>>

\* the handler returns, having written its status or none
HandlerReturn ==
    /\ pc = "inHandler"
    /\ \E s \in StatusCodes(status) : status' = s
    /\ pc' = "loop"
    /\ index' = index + 1
    /\ UNCHANGED <<framework, handlers, abortOnErrors, aborted, stack, panicCause, store,
                   everPut, spans, headers, buf, binInjects, handlerRuns, ops, last>>

\* the gin handler aborts the request (c.AbortWithStatus) and returns
HandlerAbort ==
    /\ pc = "inHandler" /\ framework = "gin"
    /\ aborted' = TRUE
    /\ \E s \in StatusCodes(status) \ {status} : status' = s
    /\ pc' = "loop"
    /\ index' = index + 1
    /\ UNCHANGED <<framework, handlers, abortOnErrors, stack, panicCause, store, everPut,
                   spans, headers, buf, binInjects, handlerRuns, ops, last>>

\* the handler panics
HandlerPanic ==
    /\ pc = "inHandler"
    /\ pc' = "unwinding"
    /\ panicCause' = "handler"
    /\ UNCHANGED <<framework, handlers, abortOnErrors, index, aborted, stack, store,
                   everPut, spans, headers, buf, binInjects, status, handlerRuns, ops, last>>

\* a panic leaves the innermost suspended middleware: its defers run
PanicUnwind ==
    /\ pc = "unwinding" /\ stack # <<>>
    /\ spans' = RunDefers(spans, Top, TRUE)
    /\ stack' = Pop
    /\ UNCHANGED <<framework, handlers, abortOnErrors, index, aborted, pc, panicCause,
                   store, everPut, headers, buf, binInjects, status, handlerRuns, ops, last>>

\* the panic reaches the server, which recovers it
ServerRecover ==
    /\ pc = "unwinding" /\ stack = <<>>
    /\ pc' = "panicked"
    /\ UNCHANGED <<framework, handlers, abortOnErrors, index, aborted, stack, panicCause,
                   store, everPut, spans, headers, buf, binInjects, status, handlerRuns,
                   ops, last>>

\* the outermost loop has run out of handlers
RequestDone ==
    /\ pc = "loop" /\ (aborted \/ index > Len(handlers)) /\ stack = <<>>
    /\ pc' = "done"
    /\ UNCHANGED <<framework, handlers, abortOnErrors, index, aborted, stack, panicCause,
                   store, everPut, spans, headers, buf, binInjects, status, handlerRuns,
                   ops, last>>

-----------------------------------------------------------------------------
(* The helper functions, called by the handler *)

InHandler == pc = "inHandler" /\ ops < MaxOps

\* a helper that dereferenced a nil tracer panics in the handler
Outcome(panic) ==
    IF panic
    THEN pc' = "unwinding" /\ panicCause' = "nilTracer"
    ELSE UNCHANGED <<pc, panicCause>>

\* the contexts the handler can have in hand
KnownContexts == {spans[i].ctx : i \in 1..Len(spans)} \cup {RemoteCtx}

CallGetGinSpan ==
    /\ InHandler /\ framework = "gin"
    /\ LET g == GetGinSpan(store) IN
       last' = [NoCall EXCEPT !.op = "GetGinSpan", !.span = g.span, !.err = g.err,
                              !.pre = store]
    /\ ops' = ops + 1
    /\ UNCHANGED <<framework, handlers, abortOnErrors, index, aborted, stack, pc, panicCause,
                   store, everPut, spans, headers, buf, binInjects, status, handlerRuns>>

CallGetGorestSpan ==
    /\ InHandler /\ framework = "gorest"
    /\ LET g == GetGorestSpan(store) IN
       last' = [NoCall EXCEPT !.op = "GetGorestSpan", !.span = g.span, !.err = g.err,
                              !.pre = store]
    /\ ops' = ops + 1
    /\ UNCHANGED <<framework, handlers, abortOnErrors, index, aborted, stack, pc, panicCause,
                   store, everPut, spans, headers, buf, binInjects, status, handlerRuns>>

CallGetGinSubSpan ==
    /\ InHandler /\ framework = "gin"
    /\ LET r == GetGinSubSpan(store, spans) IN
       /\ store' = r.store
       /\ spans' = r.spans
       /\ last' = [NoCall EXCEPT !.op = "GetGinSubSpan", !.span = r.span, !.err = r.err,
                                 !.pre = store, !.panic = r.panic]
       /\ Outcome(r.panic)
    /\ ops' = ops + 1
    /\ UNCHANGED <<framework, handlers, abortOnErrors, index, aborted, stack, everPut,
                   headers, buf, binInjects, status, handlerRuns>>

CallGetGorestSubSpan ==
    /\ InHandler /\ framework = "gorest"
    /\ LET r == GetGorestSubSpan(store, spans) IN
       /\ store' = r.store
       /\ spans' = r.spans
       /\ last' = [NoCall EXCEPT !.op = "GetGorestSubSpan", !.span = r.span, !.err = r.err,
                                 !.pre = store, !.panic = r.panic]
       /\ Outcome(r.panic)
    /\ ops' = ops + 1
    /\ UNCHANGED <<framework, handlers, abortOnErrors, index, aborted, stack, everPut,
                   headers, buf, binInjects, status, handlerRuns>>

\* what a binary injection leaves: the carrier, and the record of the call
Injected(op, r) ==
    /\ buf' = r.buf
    /\ binInjects' = IF r.err = NoErr /\ ~r.panic /\ buf # BrokenCarrier
                     THEN binInjects + 1 ELSE binInjects
    /\ last' = [NoCall EXCEPT !.op = op, !.err = r.err, !.pre = store, !.in = buf,
                              !.ctx = r.ctx, !.panic = r.panic]
    /\ Outcome(r.panic)

CallInjectGinToBinary ==
    /\ InHandler /\ framework = "gin"
    /\ Injected("InjectGinToBinary", InjectGinToBinary(store, spans, buf))
    /\ ops' = ops + 1
    /\ UNCHANGED <<framework, handlers, abortOnErrors, index, aborted, stack, store, everPut,
                   spans, headers, status, handlerRuns>>

CallInjectGorestToBinary ==
    /\ InHandler /\ framework = "gorest"
    /\ Injected("InjectGorestToBinary", InjectGorestToBinary(store, spans, buf))
    /\ ops' = ops + 1
    /\ UNCHANGED <<framework, handlers, abortOnErrors, index, aborted, stack, store, everPut,
                   spans, headers, status, handlerRuns>>

CallInjectToBinary ==
    /\ InHandler
    /\ \E ctx \in KnownContexts : Injected("InjectToBinary", InjectToBinary(ctx, buf))
    /\ ops' = ops + 1
    /\ UNCHANGED <<framework, handlers, abortOnErrors, index, aborted, stack, store, everPut,
                   spans, headers, status, handlerRuns>>

CallInjectToBinaryNoReset ==
    /\ InHandler
    /\ \E ctx \in KnownContexts :
       Injected("InjectToBinaryNoReset", InjectToBinaryNoReset(ctx, buf))
    /\ ops' = ops + 1
    /\ UNCHANGED <<framework, handlers, abortOnErrors, index, aborted, stack, store, everPut,
                   spans, headers, status, handlerRuns>>

\* the carrier of an Injectable is a bytes.Buffer, whose Write does not fail
CallInjectToBinaryRequest ==
    /\ InHandler /\ framework = "gorest" /\ buf # BrokenCarrier
    /\ Injected("InjectToBinaryRequest", InjectToBinaryRequest(store, spans, buf))
    /\ ops' = ops + 1
    /\ UNCHANGED <<framework, handlers, abortOnErrors, index, aborted, stack, store, everPut,
                   spans, headers, status, handlerRuns>>

CallInjectToBinaryRequestUnchecked ==
    /\ InHandler /\ framework = "gorest" /\ buf # BrokenCarrier
    /\ LET r == InjectToBinaryRequestUnchecked(store, spans, buf) IN
       /\ buf' = r.buf
       /\ binInjects' = IF r.panic THEN binInjects ELSE binInjects + 1
       /\ last' = [NoCall EXCEPT !.op = "InjectToBinaryRequestUnchecked", !.err = r.err,
                                 !.pre = store, !.in = buf, !.ctx = r.ctx,
                                 !.panic = r.panic]
       /\ IF r.panic
          THEN pc' = "unwinding" /\ panicCause' = r.cause
          ELSE UNCHANGED <<pc, panicCause>>
    /\ ops' = ops + 1
    /\ UNCHANGED <<framework, handlers, abortOnErrors, index, aborted, stack, store, everPut,
                   spans, headers, status, handlerRuns>>

\* the binary injections
InjectOps == {"InjectToBinary", "InjectToBinaryNoReset", "InjectToBinaryRequest",
              "InjectToBinaryRequestUnchecked", "InjectGinToBinary", "InjectGorestToBinary"}

\* the binary injections that take the span from the request's store
RequestInjectOps == {"InjectGinToBinary", "InjectGorestToBinary", "InjectToBinaryRequest",
                     "InjectToBinaryRequestUnchecked"}

\* what an extraction from the carrier leaves; injected is the context the call
\* before it wrote into the carrier, if that call was an injection that succeeded
Extracted(op, r) ==
    /\ buf' = r.buf
    /\ last' = [NoCall EXCEPT !.op = op, !.ctx = r.ctx, !.err = r.err, !.pre = store,
                              !.in = buf, !.prevOp = last.op,
                              !.injected = IF last.op \in InjectOps /\ last.err = NoErr
                                              /\ ~last.panic /\ buf # BrokenCarrier
                                           THEN last.ctx ELSE NilCtx]
    /\ ops' = ops + 1
    /\ UNCHANGED <<framework, handlers, abortOnErrors, index, aborted, stack, pc, panicCause,
                   store, everPut, spans, headers, binInjects, status, handlerRuns>>

CallExtractFromBinary ==
    /\ InHandler
    /\ Extracted("ExtractFromBinary", ExtractFromBinary(buf))

CallExtractFromBinaryGetBuff ==
    /\ InHandler /\ buf # BrokenCarrier
    /\ Extracted("ExtractFromBinaryGetBuff", ExtractFromBinaryGetBuff(buf))

CallStartSpanFromBinary ==
    /\ InHandler
    /\ LET r == StartSpanFromBinary(spans, buf, 0) IN
       /\ spans' = r.spans
       /\ buf' = r.buf
       /\ last' = [NoCall EXCEPT !.op = "StartSpanFromBinary", !.span = r.span,
                                 !.err = r.err, !.pre = store, !.in = buf]
    /\ ops' = ops + 1
    /\ UNCHANGED <<framework, handlers, abortOnErrors, index, aborted, stack, pc, panicCause,
                   store, everPut, headers, binInjects, status, handlerRuns>>

\* the handler calls StartSpanWithHeader on the request's headers, or on nil
CallStartSpanWithHeader ==
    /\ InHandler
    /\ \E hasHeader \in BOOLEAN :
       LET r == StartSpanWithHeader(spans, hasHeader, headers, 0) IN
       /\ spans' = r.spans
       /\ last' = [NoCall EXCEPT !.op = "StartSpanWithHeader", !.span = r.span,
                                 !.err = r.err, !.pre = store, !.hasHeader = hasHeader]
    /\ ops' = ops + 1
    /\ UNCHANGED <<framework, handlers, abortOnErrors, index, aborted, stack, pc, panicCause,
                   store, everPut, headers, buf, binInjects, status, handlerRuns>>

CallStartSpanWithHeaderSpanOnly ==
    /\ InHandler
    /\ \E hasHeader \in BOOLEAN :
       LET r == StartSpanWithHeaderSpanOnly(spans, hasHeader, headers, 0) IN
       /\ spans' = r.spans
       /\ last' = [NoCall EXCEPT !.op = "StartSpanWithHeaderSpanOnly", !.span = r.span,
                                 !.err = r.err, !.pre = store, !.hasHeader = hasHeader]
    /\ ops' = ops + 1
    /\ UNCHANGED <<framework, handlers, abortOnErrors, index, aborted, stack, pc, panicCause,
                   store, everPut, headers, buf, binInjects, status, handlerRuns>>

\* the handler calls a method of the span NewEmptySpan() gave it
CallEmptySpanMethod ==
    /\ InHandler
    /\ \E m \in EmptySpanMethods, key \in BaggageKeys :
       LET r == EmptySpanCall(spans, m, key) IN
       /\ spans' = r.spans
       /\ last' = [NoCall EXCEPT !.op = m, !.recv = EmptySpan, !.key = key, !.span = r.span,
                                 !.str = r.str, !.ctx = r.ctx, !.tracer = r.tracer,
                                 !.pre = store, !.prevOp = last.op, !.prevKey = last.key]
    /\ ops' = ops + 1
    /\ UNCHANGED <<framework, handlers, abortOnErrors, index, aborted, stack, pc, panicCause,
                   store, everPut, headers, buf, binInjects, status, handlerRuns>>

\* the handler goes on with the Span a setter returned: span.SetTag(..).SetTag(..);
\* a method called on a nil Span panics
CallChained ==
    /\ InHandler /\ last.op \in SpanSetters /\ last.recv = EmptySpan
    /\ \E m \in SpanSetters, key \in BaggageKeys :
       IF last.span = NilSpan
       THEN /\ pc' = "unwinding" /\ panicCause' = "nilSpan"
            /\ last' = [NoCall EXCEPT !.op = m, !.recv = last.span, !.key = key,
                                      !.pre = store, !.panic = TRUE,
                                      !.prevOp = last.op, !.prevKey = last.key]
            /\ UNCHANGED spans
       ELSE LET r == EmptySpanCall(spans, m, key) IN
            /\ spans' = r.spans
            /\ last' = [NoCall EXCEPT !.op = m, !.recv = last.span, !.key = key,
                                      !.span = r.span, !.str = r.str, !.pre = store,
                                      !.prevOp = last.op, !.prevKey = last.key]
            /\ UNCHANGED <<pc, panicCause>>
    /\ ops' = ops + 1
    /\ UNCHANGED <<framework, handlers, abortOnErrors, index, aborted, stack, store, everPut,
                   headers, buf, binInjects, status, handlerRuns>>

\* the spans the handler can have in hand
KnownSpans == {EmptySpan} \cup {TracerSpan(i) : i \in 1..Len(spans)}

\* the handler calls GetSubSpan on a span it holds
CallGetSubSpan ==
    /\ InHandler
    /\ \E root \in KnownSpans :
       LET r == GetSubSpan(spans, root, 0) IN
       /\ spans' = r.spans
       /\ last' = [NoCall EXCEPT !.op = "GetSubSpan", !.recv = root, !.span = r.span,
                                 !.pre = store, !.panic = r.panic]
       /\ Outcome(r.panic)
    /\ ops' = ops + 1
    /\ UNCHANGED <<framework, handlers, abortOnErrors, index, aborted, stack, store, everPut,
                   headers, buf, binInjects, status, handlerRuns>>

\* what a call that starts a span and cannot fail leaves
Started(op, parent, sp) ==
    /\ spans' = sp
    /\ last' = [NoCall EXCEPT !.op = op, !.span = TracerSpan(Len(sp)), !.ctx = parent,
                              !.pre = store]
    /\ ops' = ops + 1
    /\ UNCHANGED <<framework, handlers, abortOnErrors, index, aborted, stack, pc, panicCause,
                   store, everPut, headers, buf, binInjects, status, handlerRuns>>

CallStartSpan ==
    /\ InHandler
    /\ Started("StartSpan", NilCtx, StartSpan(spans, 0))

CallStartSpanWithParent ==
    /\ InHandler
    /\ \E parent \in KnownContexts \cup {NilCtx} :
       Started("StartSpanWithParent", parent, StartSpanWithParent(spans, parent, 0))

CallStartSpanWithBinParent ==
    /\ InHandler
    /\ \E parent \in KnownContexts \cup {NilCtx} :
       Started("StartSpanWithBinParent", parent, StartSpanWithBinParent(spans, parent, 0))

-----------------------------------------------------------------------------
(* Specifications *)

Next ==
    \/ OpenTracerGinMiddlewareEnter
    \/ OpenTracerGinMiddlewareExit
    \/ OpenTracerGorestMiddlewareEnter
    \/ OpenTracerGorestMiddlewareExit
    \/ SpanFromHeadersEnter
    \/ SpanFromHeadersHTTPFmtEnter
    \/ SpanFromContextEnter
    \/ SpanFromExit
    \/ InjectToHeadersRun
    \/ UserMiddlewareEnter
    \/ UserMiddlewareExit
    \/ HandlerEnter
    \/ CallGetGinSpan
    \/ CallGetGorestSpan
    \/ CallGetGinSubSpan
    \/ CallGetGorestSubSpan
    \/ HandlerReturn
    \/ HandlerAbort
    \/ HandlerPanic
    \/ PanicUnwind
    \/ ServerRecover
    \/ RequestDone

Spec == Init /\ [][Next]_vars

\* a handler about to call the helpers: behind an OpenTracer middleware that stored
\* its span, or with what user code left under spanContextKey and no span started
InitApi ==
    /\ framework \in {"gin", "gorest"}
    /\ abortOnErrors = FALSE
    /\ aborted = FALSE
    /\ pc = "inHandler"
    /\ panicCause = "none"
    /\ headers \in InitialHeaders
    /\ buf \in {<<>>, GarbageBuf, BrokenCarrier}
    /\ binInjects = 0
    /\ status = IF framework = "gin" THEN 200 ELSE 0
    /\ handlerRuns = 1
    /\ ops = 0
    /\ last = NoCall
    /\ \/ /\ handlers = <<IF framework = "gin" THEN "OpenTracerGinMiddleware"
                          ELSE "OpenTracerGorestMiddleware", "Handler">>
          /\ index = 2
          /\ stack = <<[h |-> 1, span |-> TracerSpan(1)]>>
          /\ \E parent \in {NilCtx, RemoteCtx} : spans = StartSpanWithParent(<<>>, parent, 1)
          /\ store = Stored(TracerSpan(1))
          /\ everPut = TRUE
       \/ /\ handlers = <<"Handler">>
          /\ index = 1
          /\ stack = <<>>
          /\ spans = <<>>
          /\ store \in InitialStores
          /\ everPut = (store.kind = "span")

NextApi ==
    \/ CallGetGinSpan
    \/ CallGetGorestSpan
    \/ CallGetGinSubSpan
    \/ CallGetGorestSubSpan
    \/ CallInjectGinToBinary
    \/ CallInjectGorestToBinary
    \/ CallInjectToBinary
    \/ CallInjectToBinaryNoReset
    \/ CallInjectToBinaryRequest
    \/ CallInjectToBinaryRequestUnchecked
    \/ CallExtractFromBinary
    \/ CallExtractFromBinaryGetBuff
    \/ CallStartSpanFromBinary
    \/ CallStartSpanWithHeader
    \/ CallStartSpanWithHeaderSpanOnly
    \/ ServerRecover

SpecApi == InitApi /\ [][NextApi]_vars

\* a handler holding spans: it starts spans, derives sub-spans, and uses the EmptySpan
InitSpan == InitApi /\ headers = NoHeader /\ buf = <<>>

NextSpan ==
    \/ CallEmptySpanMethod
    \/ CallChained
    \/ CallGetSubSpan
    \/ CallGetGinSubSpan
    \/ CallGetGorestSubSpan
    \/ CallStartSpan
    \/ CallStartSpanWithParent
    \/ CallStartSpanWithBinParent
    \/ ServerRecover

SpecSpan == InitSpan /\ [][NextSpan]_vars

-----------------------------------------------------------------------------
(* Concurrent requests: one OpenTracer middleware instance in front of one handler,
   serving several requests at once.  Each request has its own gin.Context /
   rest.Request and its own call of the middleware's closure, so the variables of
   the request (index, stack, pc, store, headers, status, handlerRuns, last) are
   functions of the request; spans, the tracer, is the one thing they share.  The
   field by of a span is the request whose middleware started it. *)

Requests == 1..MaxRequests

\* a middleware whose span variable is declared outside the closure that serves a
\* request: it holds the span started last, by whichever request
LocalSpanCaptured(frames, sp, r) == IF sp = <<>> THEN NilSpan ELSE TracerSpan(Len(sp))

\* var span opentracing.Span, declared inside the closure: each call has its own
LocalSpan(frames, sp, r) == frames[r][1].span

InitConc ==
    /\ framework \in {"gin", "gorest"}
    /\ handlers = <<IF framework = "gin" THEN "OpenTracerGinMiddleware"
                    ELSE "OpenTracerGorestMiddleware", "Handler">>
    /\ abortOnErrors = FALSE
    /\ aborted = FALSE
    /\ index = [r \in Requests |-> 1]
    /\ stack = [r \in Requests |-> <<>>]
    /\ pc = [r \in Requests |-> "loop"]
    /\ panicCause = "none"
    /\ store = [r \in Requests |-> Absent]
    /\ everPut = FALSE
    /\ spans = <<>>
    /\ headers \in [Requests -> {NoHeader, EncodeHTTPHeaders(RemoteCtx)}]
    /\ buf = <<>>
    /\ binInjects = 0
    /\ status = [r \in Requests |-> IF framework = "gin" THEN 200 ELSE 0]
    /\ handlerRuns = [r \in Requests |-> 0]
    /\ ops = 0
    /\ last = [r \in Requests |-> NoCall]

\* the middleware's closure runs for request r, up to c.Next() / next(w, r)
ReqEnter(r) ==
    /\ pc[r] = "loop" /\ index[r] = 1
    /\ LET s == OpenTracerStartSpan(store[r], spans, headers[r], r) IN
       /\ spans' = s.spans
       /\ store' = IF s.err # NoErr THEN store ELSE [store EXCEPT ![r] = Stored(s.span)]
       /\ stack' = [stack EXCEPT ![r] = <<[h |-> 1, span |-> s.span]>>]
    /\ index' = [index EXCEPT ![r] = 2]
    /\ UNCHANGED <<framework, handlers, abortOnErrors, aborted, pc, panicCause, everPut,
                   headers, buf, binInjects, status, handlerRuns, ops, last>>

\* the handler of request r starts and looks up the active span of its request
ReqHandlerEnter(r) ==
    /\ pc[r] = "loop" /\ index[r] = 2
    /\ pc' = [pc EXCEPT ![r] = "inHandler"]
    /\ handlerRuns' = [handlerRuns EXCEPT ![r] = @ + 1]
    /\ LET g == IF framework = "gin" THEN GetGinSpan(store[r]) ELSE GetGorestSpan(store[r]) IN
       last' = [last EXCEPT ![r] = [NoCall EXCEPT !.op = "GetSpan", !.span = g.span,
                                                  !.err = g.err, !.pre = store[r]]]
    /\ UNCHANGED <<framework, handlers, abortOnErrors, index, aborted, stack, panicCause,
                   store, everPut, spans, headers, buf, binInjects, status, ops>>

\* the handler of request r returns, having written its status or none
ReqHandlerReturn(r) ==
    /\ pc[r] = "inHandler"
    /\ \E c \in StatusCodes(status[r]) : status' = [status EXCEPT ![r] = c]
    /\ pc' = [pc EXCEPT ![r] = "loop"]
    /\ index' = [index EXCEPT ![r] = 3]
    /\ UNCHANGED <<framework, handlers, abortOnErrors, aborted, stack, panicCause, store,
                   everPut, spans, headers, buf, binInjects, handlerRuns, ops, last>>

\* the handler of request r panics
ReqHandlerPanic(r) ==
    /\ pc[r] = "inHandler"
    /\ pc' = [pc EXCEPT ![r] = "unwinding"]
    /\ UNCHANGED <<framework, handlers, abortOnErrors, index, aborted, stack, panicCause,
                   store, everPut, spans, headers, buf, binInjects, status, handlerRuns,
                   ops, last>>

\* the closure of request r after Next(): the status tag, then the deferred Finish
ReqExit(r) ==
    /\ pc[r] = "loop" /\ index[r] = 3
    /\ LET f == [h |-> 1, span |-> LocalSpan(stack, spans, r)] IN
       spans' = RunDefers(IF f.span # NilSpan /\ (framework = "gin" \/ status[r] # 0)
                          THEN SpanSetStatus(spans, f.span, status[r]) ELSE spans,
                          f, FALSE)
    /\ stack' = [stack EXCEPT ![r] = <<>>]
    /\ pc' = [pc EXCEPT ![r] = "done"]
    /\ UNCHANGED <<framework, handlers, abortOnErrors, index, aborted, panicCause, store,
                   everPut, headers, buf, binInjects, status, handlerRuns, ops, last>>

\* the panic of request r leaves the closure: its deferred Finish runs
ReqUnwind(r) ==
    /\ pc[r] = "unwinding"
    /\ spans' = RunDefers(spans, [h |-> 1, span |-> LocalSpan(stack, spans, r)], TRUE)
    /\ stack' = [stack EXCEPT ![r] = <<>>]
    /\ pc' = [pc EXCEPT ![r] = "panicked"]
    /\ UNCHANGED <<framework, handlers, abortOnErrors, index, aborted, panicCause, store,
                   everPut, headers, buf, binInjects, status, handlerRuns, ops, last>>

NextConc ==
    \E r \in Requests :
        \/ ReqEnter(r)
        \/ ReqHandlerEnter(r)
        \/ ReqHandlerReturn(r)
        \/ ReqHandlerPanic(r)
        \/ ReqExit(r)
        \/ ReqUnwind(r)

SpecConc == InitConc /\ [][NextConc]_vars

-----------------------------------------------------------------------------
(* Properties *)

\* the span a middleware started is deferred by a middleware still waiting in Next()
Deferred(i) == \E k \in 1..Len(stack) : stack[k].span = TracerSpan(i)

\* C1: a span started by a middleware is finished exactly once by the time the
\* middleware returns, on the normal return, on abort and on a panic of a later
\* handler: not yet finished while the middleware waits in Next(), finished once
\* after it has left, never twice.
C1_FinishExactlyOnce ==
    \A i \in 1..Len(spans) :
        spans[i].by > 0 =>
            IF Deferred(i) THEN spans[i].finished = 0 ELSE spans[i].finished = 1

\* C1: a handler panicked behind a middleware whose span was finished once
C1_Witness ==
    /\ pc = "panicked" /\ panicCause = "handler"
    /\ \E i \in 1..Len(spans) : spans[i].by > 0 /\ spans[i].finished = 1

\* the header argument of the last StartSpanWithHeader call does not yield a context
ExtractionFailed == last.hasHeader /\ headers \in {NoHeader, GarbageHeader}

\* C2: StartSpanWithHeader returns a non-nil span for every header; when the
\* extraction fails the span is a root span and the error is reported beside it.
C2_AlwaysUsableSpan ==
    last.op \in {"StartSpanWithHeader", "StartSpanWithHeaderSpanOnly"} =>
        /\ last.span.impl = "tracer"
        /\ ExtractionFailed =>
              /\ spans[last.span.id].refs = <<>>
              /\ last.err # NoErr

\* C3: behind SpanFromHeaders / SpanFromHeadersHTTPFmt with abortOnErrors=false, a
\* request without tracing headers reaches its handler with a root span of that
\* middleware in the request store.
C3_RootSpanWithoutHeaders ==
    ( /\ pc = "inHandler" /\ index > 1
      /\ handlers[index - 1] \in {"SpanFromHeaders", "SpanFromHeadersHTTPFmt"}
      /\ ~abortOnErrors
      /\ headers = NoHeader )
    => /\ store.kind = "span" /\ store.span.impl = "tracer"
       /\ spans[store.span.id].refs = <<>>
       /\ spans[store.span.id].by = index - 1

\* C4: GetGinSpan / GetGorestSpan return ErrSpanNotFound and a nil span on a store
\* that never received a span, never the EmptySpan and never success without a
\* span; on a store holding a span they return that span and no error.
C4_GetSpanExplicit ==
    last.op \in {"GetGinSpan", "GetGorestSpan"} =>
        /\ ~everPut => last.err = ErrSpanNotFound /\ last.span = NilSpan
        /\ last.pre.kind = "span" => last.span = last.pre.span /\ last.err = NoErr
        /\ (last.err = NoErr) <=> (last.span # NilSpan)
        /\ last.err \in {NoErr, ErrSpanNotFound}

\* C4: a getter was called on a store that never received a span
C4_Witness ==
    /\ last.op \in {"GetGinSpan", "GetGorestSpan"}
    /\ ~everPut /\ last.err = ErrSpanNotFound /\ last.span = NilSpan

\* the middleware about to run fails: no context in the headers, or no span in the store
TracingFails ==
    \/ CanDispatch("SpanFromHeaders") /\ TracerExtract("TextMap", headers).err # NoErr
    \/ CanDispatch("SpanFromHeadersHTTPFmt")
          /\ TracerExtract("HTTPHeaders", headers).err # NoErr
    \/ (CanDispatch("SpanFromContext") \/ CanDispatch("InjectToHeaders"))
          /\ ~(store.kind = "span")

\* C5: with abortOnErrors=true a failing SpanFromHeaders / SpanFromHeadersHTTPFmt /
\* SpanFromContext / InjectToHeaders aborts the request with status 500, starts and
\* stores no span, and no handler runs once the request is aborted.
C5_AbortOnErrors ==
    [][ /\ (abortOnErrors /\ TracingFails) =>
               /\ aborted' /\ status' = StatusInternalServerError
               /\ spans' = spans /\ store' = store /\ stack' = stack
        /\ aborted =>
               /\ handlerRuns' = handlerRuns /\ pc' # "inHandler"
               /\ Len(spans') = Len(spans) /\ store' = store ]_vars

\* C5: a request was aborted with 500 by a failing middleware; its handler never ran
C5_Witness ==
    /\ abortOnErrors /\ aborted /\ status = StatusInternalServerError
    /\ pc = "done" /\ handlerRuns = 0 /\ spans = <<>>

\* the carrier handed to the last call was empty, or its bytes do not decode
BadCarrier == last.in = <<>> \/ (Len(last.in) >= 2 /\ (last.in[1] = 0 \/ last.in[2] = 0))

\* C6: StartSpanFromBinary on an empty or undecodable carrier returns a non-nil
\* span without a parent, and a non-nil error; it does not panic.
C6_SpanFromBadCarrier ==
    (last.op = "StartSpanFromBinary" /\ BadCarrier) =>
        /\ last.span.impl = "tracer"
        /\ spans[last.span.id].refs = <<>>
        /\ last.err # NoErr
        /\ ~last.panic /\ panicCause = "none"

\* C6: StartSpanFromBinary was called on an empty carrier
C6_Witness ==
    /\ last.op = "StartSpanFromBinary" /\ last.in = <<>>
    /\ last.err # NoErr /\ last.span.impl = "tracer"

\* C7: after a second (or later) binary injection into the same carrier, the
\* carrier holds the encoding of the context injected last, and nothing else.
C7_CarrierHoldsLastInjection ==
    ( /\ last.op \in {"InjectToBinary", "InjectGinToBinary", "InjectGorestToBinary"}
      /\ last.err = NoErr /\ ~last.panic
      /\ binInjects >= 2 )
    => buf = EncodeBinary(last.ctx)

\* C8: GetGinSubSpan / GetGorestSubSpan leave the request store as it was; with an
\* active span of the tracer in the store they return a span started by the call
\* whose one reference is the stored span's context.
C8_SubSpanLeavesStore ==
    last.op \in {"GetGinSubSpan", "GetGorestSubSpan"} =>
        /\ store = last.pre
        /\ (last.pre.kind = "span" /\ last.pre.span.impl = "tracer") =>
              /\ last.err = NoErr /\ ~last.panic
              /\ last.span = TracerSpan(Len(spans))
              /\ last.span # last.pre.span
              /\ spans[last.span.id].refs = <<spans[last.pre.span.id].ctx>>

\* C8: the handler made MaxOps sub-span calls on a store holding a middleware's span
C8_Witness ==
    /\ last.op \in {"GetGinSubSpan", "GetGorestSubSpan"}
    /\ ops = MaxOps /\ Len(spans) > MaxOps
    /\ last.span = TracerSpan(Len(spans))
    /\ store.span.impl = "tracer"

\* C9: InjectToHeaders writes the identifiers of the stored span's context into the
\* request's headers and does not abort; without a span in the store it leaves the
\* headers as they are, starts nothing, and aborts exactly when abortOnErrors is set.
C9_InjectToHeaders ==
    [][ CanDispatch("InjectToHeaders") =>
           IF store.kind = "span"
           THEN /\ store.span.impl = "tracer" =>
                      /\ headers'.t = spans[store.span.id].ctx.traceID
                      /\ headers'.s = spans[store.span.id].ctx.spanID
                /\ ~aborted' /\ status' = status
           ELSE /\ headers' = headers
                /\ spans' = spans /\ store' = store
                /\ aborted' = abortOnErrors ]_vars

\* C9: the headers carry the context of a span this request started
C9_Witness ==
    \E i \in 1..Len(spans) :
        /\ store = Stored(TracerSpan(i))
        /\ headers.t = spans[i].ctx.traceID /\ headers.s = spans[i].ctx.spanID

\* C10: no lookup of the active span panics on the content of the store's slot.
C10_NoLookupPanics == panicCause # "typeAssert"

\* C11: the span of NewEmptySpan never crashes a call site that takes a real span:
\* GetSubSpan on it, a call chained on what its setters return, and a sub-span
\* getter that finds it in the store all return without a panic.
C11_EmptySpanNeverCrashes == panicCause \notin {"nilTracer", "nilSpan"}

\* C12: a method called on the EmptySpan returns without a panic and changes nothing:
\* no span of the tracer, not the store, not a carrier; BaggageItem returns "" for
\* every key, whatever was called before, Context returns nil and Tracer returns nil.
C12_EmptySpanNeutral ==
    [][ (last'.recv = EmptySpan /\ last'.op \in EmptySpanMethods /\ ops' = ops + 1) =>
           /\ ~last'.panic /\ pc' = pc /\ panicCause' = "none"
           /\ spans' = spans /\ store' = store /\ buf' = buf /\ headers' = headers
           /\ last'.str = ""
           /\ last'.ctx = NilCtx
           /\ last'.tracer = "nil" ]_vars

\* C12: BaggageItem was called on the EmptySpan right after SetBaggageItem with the
\* same key
C12_Witness ==
    /\ last.recv = EmptySpan /\ last.op = "BaggageItem" /\ last.str = ""
    /\ last.prevOp = "SetBaggageItem" /\ last.prevKey = last.key

\* a middleware that reads the inbound headers is about to run
InboundPath ==
    \/ CanDispatch("SpanFromHeaders")
    \/ CanDispatch("SpanFromHeadersHTTPFmt")
    \/ (CanDispatch("OpenTracerGinMiddleware") \/ CanDispatch("OpenTracerGorestMiddleware"))
          /\ store = Absent

C14_BinaryRoundTrip ==
    ( /\ \/ last.op = "ExtractFromBinary" /\ last.prevOp \in InjectOps \ {"InjectToBinaryRequest"}
         \/ last.op = "ExtractFromBinaryGetBuff" /\ last.prevOp = "InjectToBinaryRequest"
      /\ last.injected # NilCtx
      /\ last.in = EncodeBinary(last.injected) )
    => last.ctx = last.injected /\ last.err = NoErr

\* C15: no binary injection hands the error of tracer.Inject to its caller: it
\* returns nil, or ErrSpanNotFound when the store holds no span.
C15_InjectErrorNotPropagated ==
    last.op \in InjectOps => last.err \in {NoErr, ErrSpanNotFound}

\* the span s, if it is one of the tracer, was started for request r
StartedFor(s, r) == s.impl = "tracer" => spans[s.id].by = r

\* C16: with requests interleaved in any order, the store of a request, the span
\* its middleware holds and the span its handler retrieves are spans started for
\* that request, and a span is finished, once, in a step of the request that
\* started it.
C16_RequestsShareNoSpan ==
    /\ [](\A r \in Requests :
            /\ store[r] \in {Absent} \cup {Stored(TracerSpan(i)) : i \in 1..Len(spans)}
            /\ StartedFor(store[r].span, r)
            /\ stack[r] # <<>> => StartedFor(stack[r][1].span, r)
            /\ StartedFor(last[r].span, r)
            /\ last[r].op = "GetSpan" => last[r].span = store[r].span)
    /\ [][\A i \in 1..Len(spans) :
            spans'[i].finished # spans[i].finished =>
                /\ pc'[spans[i].by] # pc[spans[i].by]
                /\ spans[i].finished = 0 /\ spans'[i].finished = 1]_vars

\* C16: two requests are in their handlers at the same time, each with its own span
C16_Witness ==
    /\ pc[1] = "inHandler" /\ pc[2] = "inHandler"
    /\ last[1].span.impl = "tracer" /\ last[2].span.impl = "tracer"
    /\ last[1].span # last[2].span

OpenTracerMiddlewares == {"OpenTracerGinMiddleware", "OpenTracerGorestMiddleware"}

\* the request's chain is OpenTracer middlewares in front of the handler
OpenTracerChain ==
    /\ Len(handlers) > 1
    /\ \A k \in 1..(Len(handlers) - 1) : handlers[k] \in OpenTracerMiddlewares

\* C17: behind OpenTracer middlewares the handler is invoked exactly once, whether
\* the middleware found a span in the store, extracted a context from the headers
\* or failed to: never twice, and once by the time the request has ended.
C17_HandlerInvokedOnce ==
    OpenTracerChain =>
        /\ handlerRuns <= 1
        /\ pc \in {"inHandler", "done", "panicked"} => handlerRuns = 1

\* C17: a request without trace headers ended behind OpenTracer middlewares that
\* started no span; its handler ran once
C17_Witness ==
    /\ OpenTracerChain /\ Len(handlers) = MaxChain + 1
    /\ headers = NoHeader /\ spans = <<>>
    /\ pc = "done" /\ handlerRuns = 1

\* the span i was started by an OpenTracer middleware
ByOpenTracer(i) == spans[i].by > 0 /\ handlers[spans[i].by] \in OpenTracerMiddlewares

\* C18: when the handler begins, the span of every OpenTracer middleware around it
\* is started, unfinished and without a status tag, and the store holds the span of
\* the middleware that called it; once a middleware has returned and nothing panicked,
\* its span is finished once and carries the response status as its tag (for
\* go-json-rest: when r.Env holds one), which only a SetTag before Finish gives.
C18_StatusTagBeforeFinish ==
    \A i \in 1..Len(spans) :
        ByOpenTracer(i) =>
            /\ (pc = "inHandler" /\ ops = 0) =>
                   /\ Deferred(i) /\ spans[i].finished = 0 /\ spans[i].statusTag = 0
                   /\ Top.span = TracerSpan(i) => store = Stored(TracerSpan(i))
            /\ (~Deferred(i) /\ panicCause = "none") =>
                   /\ spans[i].finished = 1
                   /\ (framework = "gin" \/ status # 0) => spans[i].statusTag = status

\* C18: a request ended with the handler's own status on the span of its middleware
C18_Witness ==
    /\ pc = "done" /\ status = 404
    /\ \E i \in 1..Len(spans) :
          ByOpenTracer(i) /\ spans[i].finished = 1 /\ spans[i].statusTag = 404

\* C19: an OpenTracer middleware that finds a span in the store starts its span as
\* child of that span's context whatever the headers hold; with nothing under the
\* key it starts a span when the headers yield a context, and the one reference of
\* a span it starts is the context extracted from the headers.
C19_ParentOfMiddlewareSpan ==
    [][ (CanDispatch("OpenTracerGinMiddleware") \/ CanDispatch("OpenTracerGorestMiddleware")) =>
           LET e == TracerExtract("HTTPHeaders", headers)
               started == Len(spans') = Len(spans) + 1
           IN  /\ store.kind = "span" =>
                     /\ started
                     /\ spans'[Len(spans')].refs = ChildOf(SpanContext(spans, store.span))
               /\ store.kind = "absent" =>
                     /\ (e.err = NoErr) <=> started
                     /\ started => spans'[Len(spans')].refs = <<e.ctx>> ]_vars

\* C19: the headers carry the remote context, the first middleware took it as parent,
\* and the second took the span of the first
C19_Witness ==
    /\ Len(spans) = 2 /\ ByOpenTracer(1) /\ ByOpenTracer(2)
    /\ TracerExtract("HTTPHeaders", headers).ctx = RemoteCtx
    /\ spans[1].refs = <<RemoteCtx>>
    /\ spans[2].refs = <<spans[1].ctx>>

\* C20: StartSpanWithParent and StartSpanWithBinParent with a nil parent start a span
\* without a reference, as StartSpan does; with a parent they start a span whose one
\* reference is that parent, in the parent's trace.
C20_NilParentIsRoot ==
    last.op \in {"StartSpan", "StartSpanWithParent", "StartSpanWithBinParent"} =>
        /\ last.span = TracerSpan(Len(spans))
        /\ IF last.ctx = NilCtx
           THEN /\ spans[last.span.id].refs = <<>>
                /\ last.op = "StartSpanWithParent" =>
                      spans = StartSpan(SubSeq(spans, 1, Len(spans) - 1), 0)
           ELSE /\ spans[last.span.id].refs = <<last.ctx>>
                /\ spans[last.span.id].ctx.traceID = last.ctx.traceID

\* C20: a span was started with a parent, then one with a nil parent
C20_Witness ==
    /\ last.op \in {"StartSpanWithParent", "StartSpanWithBinParent"} /\ last.ctx = NilCtx
    /\ Len(spans) >= 2
    /\ spans[Len(spans) - 1].refs # <<>> /\ spans[Len(spans)].refs = <<>>

\* C21: StartSpanWithHeader asks the tracer for no span it then drops: after a call
\* every span the tracer started is held by someone who can finish it, and the span
\* the call returns is the one the tracer started last.
C21_NoDiscardedSpan ==
    last.op \in {"StartSpanWithHeader", "StartSpanWithHeaderSpanOnly"} =>
        /\ \A i \in 1..Len(spans) : spans[i].held
        /\ last.span.impl = "tracer" => last.span = TracerSpan(Len(spans))

\* C22: while a middleware of the request is still running, the span the store
\* hands out as the active span (GetGinSpan / GetGorestSpan) is not finished.
C22_StoredSpanUnfinished ==
    (pc \in {"loop", "inHandler"} /\ stack # <<>>) =>
        LET g == IF framework = "gin" THEN GetGinSpan(store) ELSE GetGorestSpan(store) IN
        (g.err = NoErr /\ g.span.impl = "tracer") => spans[g.span.id].finished = 0

\* C23: a binary injection taken from a request whose store holds no active span
\* returns ErrSpanNotFound, leaves the carrier as it was, starts no span, and does
\* not panic.
C23_InjectWithoutSpan ==
    [][ ( /\ last'.op \in RequestInjectOps /\ ops' = ops + 1
          /\ GetGorestSpan(store).err # NoErr ) =>
           /\ last'.err = ErrSpanNotFound
           /\ buf' = buf /\ spans' = spans
           /\ ~last'.panic /\ pc' = pc /\ panicCause' = "none" ]_vars

====
